---- MODULE Spec2Model ----
(***************************************************************************)
(* Order / payment state machine of the Tea Shop API                       *)
(* (src/backend/server.py): the order store (db.orders), the checkout      *)
(* handler initiate_payment with its three awaited steps, the gateway      *)
(* client create_payment_session, the three gateway callbacks and the      *)
(* status query.                                                           *)
(*                                                                         *)
(* db.orders is a sequence in natural (insertion) order; find_one and      *)
(* update_one act on the first document that matches the filter.           *)
(* Transaction ids are positive integers, None is 0.  `ev` records the     *)
(* step taken last: the request it served and the response it returned.    *)
(***************************************************************************)
EXTENDS Integers, Sequences, FiniteSets, TLC

\* ---------------------------------------------------------------- bounds
MaxOrders == 2      \* documents db.orders may hold
MaxTran == 1        \* calls of create_payment_session
MaxInflight == 1    \* initiate_payment requests suspended at an await

\* ------------------------------------------------------------- constants
None == 0           \* Optional[str] = None
NoField == "<absent>"

OrderIds == {1, 2}
TranIds == 1..MaxTran

VARIABLES orders, inflight, issued, posted, ev

vars == <<orders, inflight, issued, posted, ev>>

\* ----------------------------------------------------------------- Order
\* The fields of Order the payment flow reads or writes.  items is the
\* length of the items list.
Order(id, items, total_amount, status, payment_status, transaction_id) ==
    [id |-> id, items |-> items, total_amount |-> total_amount,
     status |-> status, payment_status |-> payment_status,
     transaction_id |-> transaction_id]

\* Request bodies.  Every field of Order, id, status, payment_status and
\* transaction_id included, is taken from the body when the body carries
\* it; the defaults (lines 101, 107-109) apply to fields the body leaves out.
\* OrderBodies: an order with the defaults, one under another id that
\* carries a status of the client's choosing, one that carries a
\* transaction id.
OrderBodies ==
    { Order(1, 1, 950, "pending", "pending", None),
      Order(2, 1, 950, "confirmed", "pending", None) }
      \cup { Order(2, 1, 950, "pending", "pending", t) : t \in TranIds }

\* Bodies: the above, one with an empty items list, one with a zero amount.
Bodies ==
    OrderBodies
      \cup { Order(1, 0, 950, "pending", "pending", None),
             Order(1, 1, 0, "pending", "pending", None) }

\* ----------------------------------------------------------- order store
RECURSIVE FirstFrom(_, _, _, _)
FirstFrom(store, field, value, i) ==
    IF i > Len(store) THEN 0
    ELSE IF store[i][field] = value THEN i
    ELSE FirstFrom(store, field, value, i + 1)

\* db.orders.find_one({field: value}): position of the first match, 0 if
\* there is none.
find_one(store, field, value) == FirstFrom(store, field, value, 1)

\* An update document without "$set": the stored document is replaced by
\* upd, and the fields upd does not name are lost.
SetFields_replace(doc, upd) ==
    [f \in DOMAIN doc |->
        IF f \in DOMAIN upd THEN upd[f]
        ELSE Order(None, 0, 0, NoField, NoField, None)[f]]

\* {"$set": upd} applied to a document: the fields upd names get its values,
\* the others stay.
SetFields(doc, upd) ==
    [f \in DOMAIN doc |-> IF f \in DOMAIN upd THEN upd[f] ELSE doc[f]]

\* update_one with upsert=True: inserts when nothing matches.
update_one_upsert(store, field, value, upd) ==
    LET i == find_one(store, field, value)
    IN  IF i = 0
        THEN Append(store, SetFields(Order(None, 0, 0, NoField, NoField, None),
                                     upd @@ (field :> value)))
        ELSE [store EXCEPT ![i] = SetFields(@, upd)]

\* update_one that writes the first match the $set would modify.
update_one_modified(store, field, value, upd) ==
    LET hit == { i \in 1..Len(store) :
                   /\ store[i][field] = value
                   /\ SetFields(store[i], upd) # store[i] }
        i == IF hit = {} THEN 0 ELSE CHOOSE j \in hit : \A k \in hit : j <= k
    IN  IF i = 0 THEN store ELSE [store EXCEPT ![i] = SetFields(@, upd)]

\* db.orders.update_one({field: value}, {"$set": upd}): the first match gets
\* the fields of upd; no match, no change (no upsert).
update_one(store, field, value, upd) ==
    LET i == find_one(store, field, value)
    IN  IF i = 0 THEN store ELSE [store EXCEPT ![i] = SetFields(@, upd)]

\* An insert_one that is not awaited: the handler goes on before the store
\* holds the document.
insert_one_not_awaited(store, doc) == store

\* db.orders.insert_one(order.dict())
insert_one(store, doc) == Append(store, doc)

\* ------------------------------------------------------- gateway client
\* What the POST to config.api_url comes back with: a 2xx answer whose body
\* parses as JSON ("json", with the fields the client reads), a non-2xx
\* answer (raise_for_status raises), a body that is not JSON (response.json
\* raises), a transport error (session.post raises) or a 2xx answer whose
\* JSON body is not an object ("notdict": result.get raises).
Reply(kind, status, failedreason) ==
    [kind |-> kind, status |-> status, failedreason |-> failedreason,
     sessionkey |-> IF status = "SUCCESS" THEN "sessionkey" ELSE NoField,
     GatewayPageURL |-> IF status = "SUCCESS" THEN "GatewayPageURL" ELSE NoField]

GatewayReplies ==
    { Reply("json", "SUCCESS", NoField),
      Reply("json", "FAILED", "Invalid amount"),
      Reply("json", "FAILED", NoField),
      Reply("json", NoField, NoField),
      Reply("non2xx", NoField, NoField),
      Reply("badjson", NoField, NoField),
      Reply("notdict", NoField, NoField),
      Reply("transport", NoField, NoField) }

SessionResult(success, transaction_id, session_key, gateway_url, error) ==
    [success |-> success, transaction_id |-> transaction_id,
     session_key |-> session_key, gateway_url |-> gateway_url,
     error |-> error]

NoSession == SessionResult(FALSE, None, NoField, NoField, NoField)

NoReply == Reply(NoField, NoField, NoField)

\* generate_transaction_id: "TEA" + UTC second + 8 hex digits of a uuid4,
\* a value no earlier call returned; the n-th call returns n.
generate_transaction_id(n) == n + 1

\* create_payment_session without its except clause: what the POST, the
\* status check or the parsing raises leaves the function, and the caller
\* gets no result.
create_payment_session_no_except(transaction_id, reply) ==
    IF reply.kind = "json"
    THEN IF reply.status = "SUCCESS"
         THEN SessionResult(TRUE, transaction_id, reply.sessionkey,
                            reply.GatewayPageURL, NoField)
         ELSE SessionResult(FALSE, None, NoField, NoField,
                            IF reply.failedreason = NoField
                            THEN "Payment session creation failed"
                            ELSE reply.failedreason)
    ELSE NoSession

\* create_payment_session after the POST: the normalised session result.
create_payment_session(transaction_id, reply) ==
    IF reply.kind = "json"
    THEN IF reply.status = "SUCCESS"
         THEN SessionResult(TRUE, transaction_id, reply.sessionkey,
                            reply.GatewayPageURL, NoField)
         ELSE SessionResult(FALSE, None, NoField, NoField,
                            IF reply.failedreason = NoField
                            THEN "Payment session creation failed"
                            ELSE reply.failedreason)
    ELSE SessionResult(FALSE, None, NoField, NoField, "Network error")

\* ------------------------------------------------------------- responses
HTTPException(status_code, detail) ==
    [status_code |-> status_code, detail |-> detail]

\* The shape of ev.  op is the endpoint, step the handler step taken, code
\* the HTTP status returned by the step (0 while the handler is suspended
\* at an await), body the order of the request, tran the transaction id of
\* the request (tran_id of a callback, path parameter of the status query,
\* tran_id of the payment_data posted to the gateway),
\* pos the position in db.orders of the document the request inserted
\* (0: none), raised whether the handler's try block raised, repeat whether
\* a callback handled without error is the one handled in the step before
\* (same endpoint, same tran_id, also handled without error), id the path
\* parameter of GET /orders/{order_id}, path the path of a POST the gateway
\* sent to a callback URL, reply what the gateway answered to the session
\* request of the step.
NoEv ==
    [op |-> "startup", step |-> "startup", code |-> 0, detail |-> NoField,
     body |-> Order(None, 0, 0, NoField, NoField, None), tran |-> None,
     pos |-> 0, raised |-> FALSE, repeat |-> FALSE,
     sr |-> NoSession, transaction_id |-> None, gateway_url |-> NoField,
     session_key |-> NoField, status |-> NoField, amount |-> 0,
     currency |-> NoField, id |-> None,
     url |-> NoField, query |-> << >>, path |-> NoField, reply |-> NoReply]

\* An exception other than HTTPException (a store or parsing error).
Exception(msg) == [status_code |-> 0, detail |-> msg]

NoExc == HTTPException(0, NoField)

\* A transaction id a request body can carry: none, or one that a stored
\* order carries (the client resubmits an order it was given back).
Known(transaction_id) ==
    \/ transaction_id = None
    \/ \E i \in 1..Len(orders) : orders[i].transaction_id = transaction_id

\* --------------------------------------------------------- POST /orders
create_order ==
    \E body \in OrderBodies :
        /\ Len(orders) < MaxOrders
        /\ Known(body.transaction_id)
        /\ orders' = insert_one(orders, body)
        /\ ev' = [NoEv EXCEPT !.op = "create_order", !.step = "insert",
                              !.code = 200, !.body = body,
                              !.pos = Len(orders) + 1]
        /\ UNCHANGED <<inflight, issued, posted>>

\* ------------------------------------------------- GET /orders/{order_id}
\* Lines 312-317: the first document with that id, or 404 (raised outside
\* any try block, so it reaches the client).
get_order ==
    \E order_id \in OrderIds :
        LET i == find_one(orders, "id", order_id)
        IN  /\ ev' = IF i = 0
                     THEN [NoEv EXCEPT !.op = "get_order", !.step = "find_one",
                                       !.id = order_id, !.raised = TRUE,
                                       !.code = 404,
                                       !.detail = "Order not found"]
                     ELSE [NoEv EXCEPT !.op = "get_order", !.step = "find_one",
                                       !.id = order_id, !.code = 200,
                                       !.body = orders[i], !.pos = i]
            /\ UNCHANGED <<orders, inflight, issued, posted>>

\* ------------------------------------------------ POST /payments/initiate
\* except Exception (lines 367-369): whatever the try block raised, the
\* HTTPExceptions it raised itself included, becomes this one.
initiate_payment_except(exc) ==
    HTTPException(500, "Payment initiation failed")

Request(order, pos, pc, sr) ==
    [order |-> order, pos |-> pos, pc |-> pc, sr |-> sr]

\* The validation with the check of order.items left out.
initiate_payment_validate_amount_only(order) ==
    IF order.total_amount <= 0
    THEN HTTPException(400, "Invalid order amount")
    ELSE NoExc

\* Lines 323-327: what the validation raises, NoExc when the order passes.
initiate_payment_validate(order) ==
    IF order.items = 0
    THEN HTTPException(400, "Order must contain at least one item")
    ELSE IF order.total_amount <= 0
    THEN HTTPException(400, "Invalid order amount")
    ELSE NoExc

\* Lines 322-330: the two validations and the insert, up to the first await.
\* A request is taken up only while a call of create_payment_session is
\* left for it under MaxTran.
initiate_payment_insert ==
    \E body \in Bodies :
        LET exc == initiate_payment_validate(body)
            out == initiate_payment_except(exc)
        IN  /\ Known(body.transaction_id)
            /\ IF exc # NoExc
               THEN /\ ev' = [NoEv EXCEPT !.op = "initiate_payment",
                                          !.step = "insert", !.body = body,
                                          !.raised = TRUE,
                                          !.code = out.status_code,
                                          !.detail = out.detail]
                    /\ UNCHANGED <<orders, inflight, issued, posted>>
               ELSE /\ Len(orders) < MaxOrders
                    /\ Cardinality(inflight) < MaxInflight
                    /\ issued + Cardinality({ r \in inflight :
                                                r.pc = "inserted" }) < MaxTran
                    /\ orders' = insert_one(orders, body)
                    /\ inflight' = inflight \cup
                           { Request(body, Len(orders) + 1, "inserted", NoSession) }
                    /\ ev' = [NoEv EXCEPT !.op = "initiate_payment",
                                          !.step = "insert", !.body = body,
                                          !.pos = Len(orders) + 1]
                    /\ UNCHANGED <<issued, posted>>

\* Lines 332-346 and 363-365: the callback URLs, the (blocking) gateway
\* call, and the error answer when the session result is a failure.
initiate_payment_session ==
    \E r \in inflight, reply \in GatewayReplies :
        LET tid == generate_transaction_id(issued)
            sr == create_payment_session(tid, reply)
            exc == HTTPException(400, sr.error)
            out == initiate_payment_except(exc)
        IN  /\ r.pc = "inserted"
            /\ issued < MaxTran
            /\ issued' = issued + 1
            /\ posted' = posted \cup {tid}
            /\ UNCHANGED orders
            /\ IF sr.success
               THEN /\ inflight' = (inflight \ {r}) \cup
                           { Request(r.order, r.pos, "session", sr) }
                    /\ ev' = [NoEv EXCEPT !.op = "initiate_payment",
                                          !.step = "session",
                                          !.body = r.order, !.pos = r.pos,
                                          !.tran = tid, !.reply = reply,
                                          !.sr = sr]
               ELSE /\ inflight' = inflight \ {r}
                    /\ ev' = [NoEv EXCEPT !.op = "initiate_payment",
                                          !.step = "session",
                                          !.body = r.order, !.pos = r.pos,
                                          !.tran = tid, !.reply = reply,
                                          !.sr = sr, !.raised = TRUE,
                                          !.code = out.status_code,
                                          !.detail = out.detail]

\* An attachment that also marks the payment as started.
initiate_payment_set_status(transaction_id) ==
    [transaction_id |-> transaction_id, payment_status |-> "initiated"]

\* The $set of the attachment (line 352).
initiate_payment_set(transaction_id) ==
    [transaction_id |-> transaction_id]

\* Lines 348-362: the update that attaches the transaction id, and the
\* success answer.
initiate_payment_update ==
    \E r \in inflight, fault \in BOOLEAN :
        LET exc == Exception("update_one failed")
            out == initiate_payment_except(exc)
        IN  /\ r.pc = "session"
            /\ inflight' = inflight \ {r}
            /\ UNCHANGED <<issued, posted>>
            /\ IF fault
               THEN /\ UNCHANGED orders
                    /\ ev' = [NoEv EXCEPT !.op = "initiate_payment",
                                          !.step = "update",
                                          !.body = r.order, !.pos = r.pos,
                                          !.sr = r.sr, !.raised = TRUE,
                                          !.code = out.status_code,
                                          !.detail = out.detail]
               ELSE /\ orders' = update_one(orders, "id", r.order.id,
                           initiate_payment_set(r.sr.transaction_id))
                    /\ ev' = [NoEv EXCEPT !.op = "initiate_payment",
                                          !.step = "update",
                                          !.body = r.order, !.pos = r.pos,
                                          !.sr = r.sr, !.code = 200,
                                          !.transaction_id = r.sr.transaction_id,
                                          !.gateway_url = r.sr.gateway_url,
                                          !.session_key = r.sr.session_key]

\* --------------------------------------------------- gateway callbacks
\* Lines 334-337: the four URLs initiate_payment hands to the gateway (the
\* base URL of the request left out).
CallbackUrls ==
    [success_url |-> "/api/payments/success",
     fail_url |-> "/api/payments/fail",
     cancel_url |-> "/api/payments/cancel",
     ipn_url |-> "/api/payments/ipn"]

\* The POST routes api_router registers for the gateway (lines 371, 395,
\* 419), under the /api prefix: path -> handler.
PostRoutes ==
    ( "/api/payments/success" :> "payment_success" )
      @@ ( "/api/payments/fail" :> "payment_fail" )
      @@ ( "/api/payments/cancel" :> "payment_cancel" )

RoutePath(op) == CHOOSE path \in DOMAIN PostRoutes : PostRoutes[path] = op

\* The gateway, for a session it has created, POSTs to one of the URLs it
\* was given for which there is no route: the router answers 404 and no
\* handler runs.
not_found ==
    \E k \in DOMAIN CallbackUrls, t \in posted :
        /\ \/ \E r \in inflight : r.pc = "session" /\ r.sr.transaction_id = t
           \/ \E i \in 1..Len(orders) : orders[i].transaction_id = t
        /\ CallbackUrls[k] \notin DOMAIN PostRoutes
        /\ ev' = [NoEv EXCEPT !.op = "not_found", !.step = "route",
                              !.path = CallbackUrls[k], !.raised = TRUE,
                              !.code = 404, !.detail = "Not Found"]
        /\ UNCHANGED <<orders, inflight, issued, posted>>

\* The $set of each callback handler (lines 383, 407, 431).
payment_success_set == [payment_status |-> "completed", status |-> "confirmed"]
payment_fail_set == [payment_status |-> "failed", status |-> "cancelled"]
payment_cancel_set == [payment_status |-> "cancelled", status |-> "cancelled"]

\* What a request can make the handler's try block raise: nothing, or an
\* error of request.form() (a body that is no form).
CallbackFaults == { "none", "form" }

\* A handler whose except clause lets the error through instead of
\* redirecting.
RedirectResponse_reraise(page, transaction_id, exc) ==
    IF exc = NoExc
    THEN [code |-> 303, url |-> page, query |-> <<transaction_id>>]
    ELSE [code |-> 500, url |-> NoField, query |-> << >>]

\* The answer of a callback handler: the RedirectResponse of the try block
\* (the front-end page with ?transaction_id=...), or the one of the except
\* clause (the error page) when the try block raised.
RedirectResponse(page, transaction_id, exc) ==
    IF exc = NoExc
    THEN [code |-> 303, url |-> page, query |-> <<transaction_id>>]
    ELSE [code |-> 303, url |-> "/payment/error", query |-> << >>]

\* One callback handler: tran_id is payment_data.get('tran_id'), None when
\* the form carries no such field and when request.form() raised before it
\* was read.
payment_callback(op, page, upd) ==
    \E tran_id \in TranIds \cup {None}, fault \in CallbackFaults :
        LET exc == IF fault = "none" THEN NoExc
                   ELSE Exception(fault)
            out == RedirectResponse(page, tran_id, exc)
        IN  /\ fault = "form" => tran_id = None
            /\ orders' = IF fault = "none"
                         THEN update_one(orders, "transaction_id", tran_id, upd)
                         ELSE orders
            /\ ev' = [NoEv EXCEPT !.op = op, !.step = "update",
                                  !.path = RoutePath(op),
                                  !.tran = tran_id,
                                  !.raised = (exc # NoExc),
                                  !.repeat = /\ exc = NoExc
                                             /\ ev.op = op
                                             /\ ev.tran = tran_id
                                             /\ ~ev.raised,
                                  !.code = out.code, !.url = out.url,
                                  !.query = out.query]
            /\ UNCHANGED <<inflight, issued, posted>>

payment_success ==
    payment_callback("payment_success", "/payment/success", payment_success_set)

payment_fail ==
    payment_callback("payment_fail", "/payment/failed", payment_fail_set)

payment_cancel ==
    payment_callback("payment_cancel", "/payment/cancelled", payment_cancel_set)

\* ------------------------------------ GET /payments/status/{transaction_id}
\* except Exception (lines 456-458): the 404 raised in the try block is an
\* Exception too.
get_payment_status_except(exc) ==
    HTTPException(500, "Status retrieval failed")

get_payment_status ==
    \E transaction_id \in TranIds :
        LET i == find_one(orders, "transaction_id", transaction_id)
            exc == IF i = 0 THEN HTTPException(404, "Transaction not found")
                   ELSE NoExc
            out == get_payment_status_except(exc)
        IN  /\ ev' = IF exc # NoExc
                     THEN [NoEv EXCEPT !.op = "get_payment_status",
                                       !.step = "find_one",
                                       !.tran = transaction_id,
                                       !.raised = TRUE,
                                       !.code = out.status_code,
                                       !.detail = out.detail]
                     ELSE [NoEv EXCEPT !.op = "get_payment_status",
                                       !.step = "find_one",
                                       !.tran = transaction_id,
                                       !.code = 200,
                                       !.transaction_id = transaction_id,
                                       !.status = orders[i].payment_status,
                                       !.amount = orders[i].total_amount,
                                       !.currency = "BDT",
                                       !.pos = i]
            /\ UNCHANGED <<orders, inflight, issued, posted>>

\* --------------------------------------------------------- specification
Init ==
    /\ orders = << >>
    /\ inflight = {}
    /\ issued = 0
    /\ posted = {}
    /\ ev = NoEv

Next ==
    \/ create_order
    \/ get_order
    \/ initiate_payment_insert
    \/ initiate_payment_session
    \/ initiate_payment_update
    \/ payment_success
    \/ payment_fail
    \/ payment_cancel
    \/ not_found
    \/ get_payment_status

Spec == Init /\ [][Next]_vars

\* The server started over a database that already holds an order: one whose
\* payment session was created, under transaction id OldTran, before the
\* start.
OldTran == None - 1

InitRestart ==
    /\ orders = << Order(1, 1, 950, "pending", "pending", OldTran) >>
    /\ inflight = {}
    /\ issued = 0
    /\ posted = {}
    /\ ev = NoEv

SpecRestart == InitRestart /\ [][Next]_vars

\* ------------------------------------------------- progress of a checkout
\* Line 169: session.post(api_url, data=payment_data) is called without a
\* timeout argument, and requests then waits for the answer without limit.
\* Here the gateway takes the request and never answers: the handler stays
\* in the call (pc "post"), and no step of the program takes it out of it.
initiate_payment_session_blocked ==
    \E r \in inflight :
        LET tid == generate_transaction_id(issued)
        IN  /\ r.pc = "inserted"
            /\ issued < MaxTran
            /\ issued' = issued + 1
            /\ posted' = posted \cup {tid}
            /\ inflight' = (inflight \ {r}) \cup
                   { Request(r.order, r.pos, "post", NoSession) }
            /\ ev' = [NoEv EXCEPT !.op = "initiate_payment", !.step = "post",
                                  !.body = r.order, !.pos = r.pos,
                                  !.tran = tid]
            /\ UNCHANGED orders

NextLive ==
    \/ create_order
    \/ get_order
    \/ initiate_payment_insert
    \/ initiate_payment_session
    \/ initiate_payment_session_blocked
    \/ initiate_payment_update
    \/ payment_success
    \/ payment_fail
    \/ payment_cancel
    \/ not_found
    \/ get_payment_status

\* The handler goes on whenever the operation it awaits has returned: it
\* makes the gateway call once the insert is done, and attaches the id once
\* the gateway has answered.
SpecLive ==
    /\ Init
    /\ [][NextLive]_vars
    /\ WF_vars(initiate_payment_session \/ initiate_payment_session_blocked)
    /\ WF_vars(initiate_payment_update)

\* ================================================================ claims
CallbackOps == { "payment_success", "payment_fail", "payment_cancel" }

Pair(doc) == <<doc.status, doc.payment_status>>

\* The pair and the front-end page the claims name for each callback.
ClaimedPair(op) ==
    CASE op = "payment_success" -> <<"confirmed", "completed">>
      [] op = "payment_fail" -> <<"cancelled", "failed">>
      [] op = "payment_cancel" -> <<"cancelled", "cancelled">>

ClaimedPage(op) ==
    CASE op = "payment_success" -> "/payment/success"
      [] op = "payment_fail" -> "/payment/failed"
      [] op = "payment_cancel" -> "/payment/cancelled"

Carries(t) == { i \in 1..Len(orders) : orders[i].transaction_id = t }

\* C1: a completed initiate_payment call for an order with non-empty items
\* and total_amount > 0 either answers success with a gateway URL while the
\* order it stored carries the returned transaction_id, or answers an error
\* while the order it stored has no transaction_id.
C1_InitiateOutcome ==
    ( /\ ev.op = "initiate_payment"
      /\ ev.code # 0
      /\ ev.body.items > 0
      /\ ev.body.total_amount > 0 )
    => \/ /\ ev.code = 200
          /\ ev.gateway_url # NoField
          /\ ev.transaction_id # None
          /\ ev.pos # 0
          /\ orders[ev.pos].transaction_id = ev.transaction_id
       \/ /\ ev.code # 200
          /\ ev.pos # 0 => orders[ev.pos].transaction_id = None

\* C2: a callback handled for a tran_id that persisted orders carry leaves
\* every such order with the pair of its outcome.
C2_CallbackSetsPair ==
    ( /\ ev.op \in CallbackOps
      /\ ~ev.raised
      /\ ev.tran # None )
    => \A i \in Carries(ev.tran) : Pair(orders[i]) = ClaimedPair(ev.op)

\* C3: every persisted order has one of the four pairs (pending, pending),
\* (confirmed, completed), (cancelled, failed), (cancelled, cancelled).
C3_LegalPairs ==
    \A i \in 1..Len(orders) :
        Pair(orders[i]) \in { <<"pending", "pending">>,
                              <<"confirmed", "completed">>,
                              <<"cancelled", "failed">>,
                              <<"cancelled", "cancelled">> }

\* C4: every callback is answered with a 303 redirect: to the page of its
\* outcome with the transaction id as the query when the handling went
\* through, to /payment/error when a step of it raised.
C4_CallbackRedirects ==
    ev.op \in CallbackOps
    => /\ ev.code = 303
       /\ IF ev.raised
          THEN ev.url = "/payment/error" /\ ev.query = << >>
          ELSE ev.url = ClaimedPage(ev.op) /\ ev.query = <<ev.tran>>

C4_Witness ==
    /\ ev.op \in CallbackOps
    /\ ev.raised
    /\ ev.url = "/payment/error"
    /\ Len(orders) > 0

\* C5: when the gateway client returns a failure result, initiate_payment
\* answers 400 with the client's failure reason as detail.
C5_GatewayFailure400 ==
    ( /\ ev.op = "initiate_payment"
      /\ ev.step = "session"
      /\ ev.code # 0 )
    => ev.code = 400 /\ ev.detail = ev.sr.error

\* C6: initiate_payment answers an order with no items, or with
\* total_amount <= 0, with 400 and the validation reason.
C6_Validation400 ==
    ( /\ ev.op = "initiate_payment"
      /\ ev.step = "insert"
      /\ ev.body.items = 0 \/ ev.body.total_amount <= 0 )
    => /\ ev.code = 400
       /\ ev.detail = IF ev.body.items = 0
                      THEN "Order must contain at least one item"
                      ELSE "Invalid order amount"

\* C7: a step in which initiate_payment rejects an order on validation
\* inserts nothing and does not call the gateway.
C7_RejectLeavesStore ==
    [][ ( /\ ev'.op = "initiate_payment"
          /\ ev'.step = "insert"
          /\ ev'.body.items = 0 \/ ev'.body.total_amount <= 0 )
        => /\ orders' = orders
           /\ posted' = posted
           /\ issued' = issued
           /\ inflight' = inflight ]_vars

C7_Witness ==
    /\ ev.op = "initiate_payment"
    /\ ev.step = "insert"
    /\ ev.body.items = 0
    /\ ev.code # 0
    /\ Len(orders) > 0

\* C8: the status query for a transaction id that no persisted order
\* carries answers 404.
C8_StatusNotFound404 ==
    ( /\ ev.op = "get_payment_status"
      /\ Carries(ev.tran) = {} )
    => ev.code = 404

\* C9: a callback delivered again right after it was handled (same outcome,
\* same tran_id) leaves the order store as the first delivery left it.
C9_CallbackIdempotent ==
    [][ ( /\ ev'.op \in CallbackOps
          /\ ev'.repeat )
        => orders' = orders ]_vars

C9_Witness ==
    /\ ev.op \in CallbackOps
    /\ ev.repeat
    /\ Cardinality(Carries(ev.tran)) > 1
    /\ Pair(orders[find_one(orders, "transaction_id", ev.tran)])
         = ClaimedPair(ev.op)

\* C10: a callback for a tran_id that no persisted order carries creates no
\* order, changes no order and is answered with a redirect.
C10_UnknownTranNoOp ==
    [][ ( /\ ev'.op \in CallbackOps
          /\ find_one(orders, "transaction_id", ev'.tran) = 0 )
        => /\ orders' = orders
           /\ ev'.code = 303 ]_vars

C10_Witness ==
    /\ ev.op \in CallbackOps
    /\ ~ev.raised
    /\ ev.tran # None
    /\ Carries(ev.tran) = {}
    /\ Len(orders) > 0

\* C11: no two persisted orders carry the same non-null transaction_id.
C11_TransactionIdUnique ==
    \A i, j \in 1..Len(orders) :
        ( /\ i # j
          /\ orders[i].transaction_id # None )
        => orders[i].transaction_id # orders[j].transaction_id

Terminal ==
    { <<"confirmed", "completed">>, <<"cancelled", "failed">>,
      <<"cancelled", "cancelled">> }

\* C12: once an order's pair is one of the three terminal pairs, no callback
\* delivered for a transaction id changes it.
C12_TerminalStable ==
    [][ ( /\ ev'.op \in CallbackOps
          /\ ev'.tran # None )
        => \A i \in 1..Len(orders) :
               Pair(orders[i]) \in Terminal
               => Pair(orders'[i]) = Pair(orders[i]) ]_vars

\* C13: no two persisted orders share the same order id.
C13_OrderIdUnique ==
    \A i, j \in 1..Len(orders) :
        i # j => orders[i].id # orders[j].id

\* C14: the status query for a transaction id that persisted orders carry
\* answers 200 with that id, the payment_status and the total_amount of the
\* order carrying it and the currency BDT, and leaves the store as it was.
C14_StatusReportsOrder ==
    ( /\ ev.op = "get_payment_status"
      /\ Carries(ev.tran) # {} )
    => /\ ev.code = 200
       /\ ev.transaction_id = ev.tran
       /\ ev.currency = "BDT"
       /\ \A i \in Carries(ev.tran) :
              /\ ev.status = orders[i].payment_status
              /\ ev.amount = orders[i].total_amount

\* C15: POST /orders persists the submitted order and returns it, a GET
\* /orders/{id} that follows with the returned id returns that order, and a
\* GET /orders/{id} for an id no persisted order has answers 404.
C15_OrderRoundTrip ==
    [][ /\ ev'.op = "create_order"
           => /\ ev'.code = 200
              /\ orders' = Append(orders, ev'.body)
        /\ ( /\ ev.op = "create_order"
             /\ ev'.op = "get_order"
             /\ ev'.id = ev.body.id )
           => /\ ev'.code = 200
              /\ ev'.body = ev.body
        /\ ( /\ ev'.op = "get_order"
             /\ \A i \in 1..Len(orders) : orders[i].id # ev'.id )
           => ev'.code = 404 ]_vars

\* The transaction ids of sessions the gateway has created and whose
\* attachment (step 4) has not been written yet.
Unattached ==
    { r.sr.transaction_id : r \in { q \in inflight : q.pc = "session" } }

\* C16: a callback handled for transaction id T while initiate_payment is
\* between its insert and the update that attaches T changes no order, and
\* the update that then attaches T changes no order's pair.
C16_EarlyCallbackLost ==
    [][ /\ ( /\ ev'.op \in CallbackOps
             /\ ev'.tran \in Unattached )
           => orders' = orders
        /\ ( /\ ev'.op = "initiate_payment"
             /\ ev'.step = "update" )
           => /\ Len(orders') = Len(orders)
              /\ \A i \in 1..Len(orders) :
                     Pair(orders'[i]) = Pair(orders[i]) ]_vars

\* The early callback has been handled, the session is still unattached and
\* the order the request inserted is still (pending, pending).
C16_Witness ==
    /\ ev.op \in CallbackOps
    /\ ~ev.raised
    /\ ev.tran \in Unattached
    /\ \E r \in inflight :
           /\ r.pc = "session"
           /\ r.sr.transaction_id = ev.tran
           /\ Pair(orders[r.pos]) = <<"pending", "pending">>
           /\ orders[r.pos].transaction_id = None

\* C17: a callback whose form has no tran_id field changes no order.
C17_MissingTranIdNoOp ==
    [][ ( /\ ev'.op \in CallbackOps
          /\ ev'.tran = None )
        => orders' = orders ]_vars

\* C18: once a persisted order has a non-null transaction_id, no step
\* changes or clears it.
C18_TransactionIdWrittenOnce ==
    [][ \A i \in 1..Len(orders) :
            orders[i].transaction_id # None
            => orders'[i].transaction_id = orders[i].transaction_id ]_vars

\* C19: no step of initiate_payment changes anything but the transaction_id
\* of a stored order, and the attachment sets that field to the id of the
\* session; status and payment_status stay as they were.
C19_AttachmentWritesIdOnly ==
    [][ ev'.op = "initiate_payment"
        => /\ \A i \in 1..Len(orders) :
                  [orders'[i] EXCEPT !.transaction_id = None]
                    = [orders[i] EXCEPT !.transaction_id = None]
           /\ \A i \in 1..Len(orders) :
                  orders'[i].transaction_id # orders[i].transaction_id
                  => /\ ev'.step = "update"
                     /\ orders'[i].transaction_id = ev'.transaction_id
                     /\ orders'[i].id = ev'.body.id ]_vars

\* The attachment has been written and the order is still (pending, pending).
C19_Witness ==
    /\ ev.op = "initiate_payment"
    /\ ev.step = "update"
    /\ ev.code = 200
    /\ \E i \in 1..Len(orders) :
           /\ orders[i].transaction_id = ev.transaction_id
           /\ Pair(orders[i]) = <<"pending", "pending">>

\* C20: when the session request is sent to the gateway, the order the
\* request inserted is in the store.
C20_InsertBeforeSession ==
    /\ \A r \in inflight :
           /\ r.pos \in 1..Len(orders)
           /\ orders[r.pos].id = r.order.id
    /\ ( /\ ev.op = "initiate_payment"
         /\ ev.step = "session" )
       => /\ ev.pos \in 1..Len(orders)
          /\ orders[ev.pos].id = ev.body.id
          /\ posted # {}

\* The session request is out, its id is not attached yet, the order exists.
C20_Witness ==
    /\ ev.op = "initiate_payment"
    /\ ev.step = "session"
    /\ ev.sr.success
    /\ ev.sr.transaction_id \in posted
    /\ Carries(ev.sr.transaction_id) = {}
    /\ ev.pos \in 1..Len(orders)

\* C21: a POST of the gateway to any of the four callback URLs it was given
\* (success, fail, cancel, ipn) is handled by a callback handler and is not
\* answered with 404.
C21_CallbackUrlsHandled ==
    ev.path \in { CallbackUrls[k] : k \in DOMAIN CallbackUrls }
    => /\ ev.op \in CallbackOps
       /\ ev.code # 404

\* C22: every initiate_payment request that has been taken up is eventually
\* answered, whatever the gateway does.
C22_InitiateCompletes == (inflight # {}) ~> (inflight = {})

\* C23: create_payment_session returns a result for every answer of the
\* gateway: success, with the transaction id it generated and posted and
\* with the session key and the gateway URL of the answer, exactly when the
\* answer is 2xx with a JSON object whose status is "SUCCESS"; a failure
\* with an error message in every other case.
C23_SessionClassified ==
    ( /\ ev.op = "initiate_payment"
      /\ ev.step = "session" )
    => /\ ev.sr.success
          <=> ( ev.reply.kind = "json" /\ ev.reply.status = "SUCCESS" )
       /\ ev.sr.success
          => /\ ev.sr.transaction_id = ev.tran
             /\ ev.tran \in posted
             /\ ev.sr.session_key = ev.reply.sessionkey
             /\ ev.sr.gateway_url = ev.reply.GatewayPageURL
             /\ ev.sr.error = NoField
       /\ ~ev.sr.success
          => /\ ev.sr.error # NoField
             /\ ev.sr.transaction_id = None
             /\ ev.reply.kind # "json" => ev.sr.error = "Network error"
             /\ ( ev.reply.kind = "json" /\ ev.reply.failedreason # NoField )
                => ev.sr.error = ev.reply.failedreason

\* The POST raised and the caller still got a failure result.
C23_Witness ==
    /\ ev.op = "initiate_payment"
    /\ ev.step = "session"
    /\ ev.reply.kind = "transport"
    /\ ~ev.sr.success
    /\ ev.sr.error = "Network error"
    /\ ev.tran \in posted

\* C24: no step changes the id, the items or the total_amount of a stored
\* order or removes an order; a callback leaves every transaction_id as it
\* was, the attachment leaves every pair as it was, and the two queries
\* change nothing.
C24_ImmutableFields ==
    [][ /\ Len(orders') >= Len(orders)
        /\ \A i \in 1..Len(orders) :
               /\ orders'[i].id = orders[i].id
               /\ orders'[i].items = orders[i].items
               /\ orders'[i].total_amount = orders[i].total_amount
        /\ ev'.op \in CallbackOps
           => \A i \in 1..Len(orders) :
                  orders'[i].transaction_id = orders[i].transaction_id
        /\ ev'.op = "initiate_payment"
           => \A i \in 1..Len(orders) : Pair(orders'[i]) = Pair(orders[i])
        /\ ev'.op \in { "get_order", "get_payment_status", "not_found" }
           => orders' = orders ]_vars

\* A callback has written the pair of an order that went through the
\* attachment, and the order still has its id, items and amount.
C24_Witness ==
    /\ ev.op \in CallbackOps
    /\ ~ev.raised
    /\ ev.tran \in posted
    /\ \E i \in Carries(ev.tran) :
           /\ Pair(orders[i]) = ClaimedPair(ev.op)
           /\ orders[i].id \in OrderIds
           /\ orders[i].items = 1
           /\ orders[i].total_amount = 950

\* C25: when initiate_payment answers success, the transaction_id it
\* returns is the one create_payment_session generated and posted to the
\* gateway as tran_id, and the order this request inserted carries it.
C25_ThreeIdsCoincide ==
    ( /\ ev.op = "initiate_payment"
      /\ ev.step = "update"
      /\ ev.code = 200 )
    => /\ ev.transaction_id = ev.sr.transaction_id
       /\ ev.transaction_id \in posted
       /\ ev.pos \in 1..Len(orders)
       /\ orders[ev.pos].transaction_id = ev.transaction_id

====
